---- MODULE Spec2Model ----
(***************************************************************************)
(* A model of edf_merge_multiprocess.py: the catalog pass parse_find that  *)
(* groups segment records into Nights of Intervals, the packing of the     *)
(* Intervals into the shared array, and the per-night worker               *)
(* process_night with its load-concatenate-discard reduction.              *)
(*                                                                         *)
(* Times are whole seconds counted from midnight of day 0.  A time string  *)
(* of the catalog is modelled by its value in milliseconds; str_to_time    *)
(* drops the fractional part, as the code does.                            *)
(***************************************************************************)
EXTENDS Integers, Sequences, FiniteSets, TLC

VARIABLES
    csv_rows,           \* the data rows of the catalog file, in file order
    FILE_CONCAT_LIMIT,  \* the module-level cap on records per Interval
    pc,                 \* position of the main program
    err,                \* the exception that ended the main program, or "none"
    edfs_list,          \* the sorted directory listing (all_files is its set)
    pf,                 \* the local variables of parse_find
    cnights,            \* the shared array of (start, end) pairs, 0-based
    num_cintervals,     \* the largest number of Intervals of one Night
    processes,          \* the number of pool processes, 0 before the pool exists
    workers,            \* night_num -> the state of process_night(night_num)
    artifacts           \* the files of OUT_PATH: the exports made so far

vars == <<csv_rows, FILE_CONCAT_LIMIT, pc, err, edfs_list, pf,
          cnights, num_cintervals, processes, workers, artifacts>>

parseVars == <<csv_rows, FILE_CONCAT_LIMIT, edfs_list>>

poolVars == <<cnights, num_cintervals, processes, workers, artifacts>>

----------------------------------------------------------------------------
(* Bounds of the model *)

MaxRows == 4

MaxCap == 2

\* the most data rows of the longer catalogs, which follow two fixed shapes
MaxLongRows == 7

\* the most pool processes (os.cpu_count() of the machine)
MaxProcesses == 2

\* the largest night and interval index whose artifact names are compared
MaxIndex == 11

----------------------------------------------------------------------------
(* Program constants *)

NIGHT_START_HOUR == 21

NightDurationHours == 11

margin == 15

\* the time strings of the catalog carry a fraction of a second
MillisPerSecond == 1000

SecondsPerHour == 60 * 60

SecondsPerDay == 24 * SecondsPerHour

NIGHT_DURATION == NightDurationHours * SecondsPerHour

\* float('inf'): no count reaches it
inf == [finite |-> FALSE, n |-> 0]

Finite(k) == [finite |-> TRUE, n |-> k]

\* count >= FILE_CONCAT_LIMIT
CountAtLeast(count, limit) == limit.finite /\ count >= limit.n

\* a local variable that has not been assigned yet
Unbound == -1

----------------------------------------------------------------------------
(* Time *)

\* str_to_time: strptime of the text before the first '.', so the
\* fraction of a second is dropped
str_to_time(time_str) == time_str \div MillisPerSecond

\* dt.replace(hour=NIGHT_START_HOUR, minute=0, second=0, microsecond=0)
ReplaceToNightStart(t) ==
    (t \div SecondsPerDay) * SecondsPerDay + NIGHT_START_HOUR * SecondsPerHour

----------------------------------------------------------------------------
(* Catalogs: sorted by start time, records do not overlap *)

EveningOfDay0 == NIGHT_START_HOUR * SecondsPerHour

\* start of the first record: before the first window by more than the
\* margin; exactly at the window start; late enough that the record ends
\* on the next day
FirstStarts ==
    { EveningOfDay0 - 30, EveningOfDay0, SecondsPerDay - 5 }

\* seconds between one record's end and the next record's start
Gaps ==
    { 5, margin, 20,
      NIGHT_DURATION - 25,
      SecondsPerDay - NIGHT_DURATION - 10 }

\* the file of data row i, by the number after the underscore of its name
\* (PR05_7.edf, PR05_8.edf, ...): the numbers pass from one digit to two
FileNumber(i) == 7 + i

\* data row i: a segment of 10 seconds starting in second s, written with
\* the fractions .250 and .750
Row(i, s) ==
    [ name  |-> FileNumber(i),
      start |-> s * MillisPerSecond + 250,
      end   |-> (s + 10) * MillisPerSecond + 750 ]

RECURSIVE CatalogsOfLen(_)
CatalogsOfLen(n) ==
    IF n = 0 THEN { <<>> }
    ELSE IF n = 1 THEN { << Row(0, s) >> : s \in FirstStarts }
    ELSE { Append(c, Row(n - 1, str_to_time(c[n - 1].end) + g)) :
             c \in CatalogsOfLen(n - 1), g \in Gaps }

Catalogs == UNION { CatalogsOfLen(n) : n \in 0..MaxRows }

RECURSIVE WithGaps(_, _)
\* the catalog whose first record starts in second s and whose next records
\* follow at the given gaps
WithGaps(s, gaps) ==
    IF gaps = <<>> THEN << Row(0, s) >>
    ELSE LET c == WithGaps(s, SubSeq(gaps, 1, Len(gaps) - 1))
         IN  Append(c, Row(Len(c), str_to_time(c[Len(c)].end) + gaps[Len(gaps)]))

\* a record before the first window, one at its start, then one record every
\* evening: a recording of many nights
Nightly(n) ==
    WithGaps(EveningOfDay0 - 30,
             <<20>> \o [k \in 1..(n - 2) |-> SecondsPerDay - 10])

\* a record before the first window, one on the next morning, then records
\* through the day at gaps above the margin
Daytime(n) ==
    WithGaps(EveningOfDay0 - 30,
             <<SecondsPerDay - NIGHT_DURATION - 10>> \o [k \in 1..(n - 2) |-> 20])

LongCatalogs ==
    { Nightly(n) : n \in 2..MaxLongRows } \cup { Daytime(n) : n \in 2..MaxLongRows }

ConcatLimits == { inf } \cup { Finite(k) : k \in 2..MaxCap }

\* the CatalogRecord of data row i (0-based), after parsing
StartOf(i) == str_to_time(csv_rows[i + 1].start)
EndOf(i) == str_to_time(csv_rows[i + 1].end)
NumRows == Len(csv_rows)

----------------------------------------------------------------------------
(* Interval and Night *)

Interval(start, end, t0, tf) == [start |-> start, end |-> end, t0 |-> t0, tf |-> tf]

\* Night.add
NightAdd(night, interval) == Append(night, interval)

----------------------------------------------------------------------------
(* parse_find *)

\* the locals of parse_find before get_first_date has run.  rows_read is the
\* position of the iterator of line 196, skipped the indices of the records
\* that took the continue of line 204, raised the exception that ended the
\* call ("none" while it runs and when it returns), windows the values of
\* start and end at each nights.append
Frame0 ==
    [ start |-> Unbound, end |-> Unbound,
      nights |-> <<>>, curr_night |-> <<>>,
      windows |-> <<>>,
      curr_interval_start |-> 0,
      curr_interval_t0 |-> Unbound,
      curr_interval_tf |-> Unbound,
      curr_interval_end |-> Unbound,
      prev_time_end |-> Unbound,
      count |-> 0,
      new_interval_flag |-> TRUE,
      rows_read |-> 0,
      skipped |-> {},
      raised |-> "none" ]

Raise(f, exc) == [f EXCEPT !.raised = exc]

\* lines 205-208: the first record after a skip or at the start opens an interval
OpenIfFlagged(f, i, curr_time_start) ==
    IF f.new_interval_flag
    THEN [f EXCEPT !.new_interval_flag = FALSE,
                   !.curr_interval_start = i,
                   !.curr_interval_t0 = curr_time_start]
    ELSE f

\* lines 210-220: a record at or past the window end closes the Night
NightBoundary(f, i, curr_time_start) ==
    IF f.raised # "none" THEN f
    ELSE IF curr_time_start >= f.end
    THEN IF f.prev_time_end = Unbound THEN Raise(f, "UnboundLocalError")
         ELSE LET closed == Interval(f.curr_interval_start, i,
                                     f.curr_interval_t0, f.prev_time_end)
                  new_start == ReplaceToNightStart(curr_time_start)
              IN  [f EXCEPT !.curr_interval_tf = f.prev_time_end,
                            !.nights = Append(f.nights, NightAdd(f.curr_night, closed)),
                            !.windows = Append(f.windows, [start |-> f.start, end |-> f.end]),
                            !.curr_night = <<>>,
                            !.start = new_start,
                            !.end = new_start + NIGHT_DURATION,
                            !.count = 0]
    ELSE f

\* the test of line 223 with >= in place of >
GapOrCapInclusive(f, i, curr_time_start) ==
    IF f.raised # "none" THEN f
    ELSE IF f.prev_time_end = Unbound THEN Raise(f, "UnboundLocalError")
    ELSE IF \/ curr_time_start - f.prev_time_end >= margin
            \/ CountAtLeast(f.count, FILE_CONCAT_LIMIT)
    THEN LET closed == Interval(f.curr_interval_start, i,
                                f.curr_interval_t0, f.prev_time_end)
         IN  [f EXCEPT !.curr_interval_tf = f.prev_time_end,
                       !.curr_night = NightAdd(f.curr_night, closed),
                       !.curr_interval_start = i + 1,
                       !.count = 0]
    ELSE f

\* lines 223-228: a gap above the margin, or a full interval, closes the interval
GapOrCap(f, i, curr_time_start) ==
    IF f.raised # "none" THEN f
    ELSE IF f.prev_time_end = Unbound THEN Raise(f, "UnboundLocalError")
    ELSE IF \/ curr_time_start - f.prev_time_end > margin
            \/ CountAtLeast(f.count, FILE_CONCAT_LIMIT)
    THEN LET closed == Interval(f.curr_interval_start, i,
                                f.curr_interval_t0, f.prev_time_end)
         IN  [f EXCEPT !.curr_interval_tf = f.prev_time_end,
                       !.curr_night = NightAdd(f.curr_night, closed),
                       !.curr_interval_start = i + 1,
                       !.count = 0]
    ELSE f

\* lines 231-232
Accumulate(f, row) ==
    IF f.raised # "none" THEN f
    ELSE [f EXCEPT !.prev_time_end = str_to_time(row.end),
                   !.count = f.count + 1]

\* the loop body without the assertion of line 200
LoopBodyUnchecked(f, i, row, files) ==
    LET curr_time_start == str_to_time(row.start)
        g == [f EXCEPT !.curr_interval_end = i, !.rows_read = i + 1]
    IN  IF curr_time_start < g.start - margin
        THEN [g EXCEPT !.new_interval_flag = TRUE,
                       !.prev_time_end = str_to_time(row.end),
                       !.skipped = g.skipped \cup {i}]
        ELSE Accumulate(
               GapOrCap(
                 NightBoundary(
                   OpenIfFlagged(g, i, curr_time_start),
                   i, curr_time_start),
                 i, curr_time_start),
               row)

\* lines 196-232: one iteration of the loop over the data rows
LoopBody(f, i, row, files) ==
    LET curr_time_start == str_to_time(row.start)
        g == [f EXCEPT !.curr_interval_end = i, !.rows_read = i + 1]
    IN  IF row.name \notin files THEN Raise(g, "AssertionError")
        ELSE IF curr_time_start < g.start - margin
        THEN [g EXCEPT !.new_interval_flag = TRUE,
                       !.prev_time_end = str_to_time(row.end),
                       !.skipped = g.skipped \cup {i}]
        ELSE Accumulate(
               GapOrCap(
                 NightBoundary(
                   OpenIfFlagged(g, i, curr_time_start),
                   i, curr_time_start),
                 i, curr_time_start),
               row)

\* lines 234-238: the tail case
TailCase(f) ==
    IF f.curr_interval_t0 = Unbound \/ f.curr_interval_tf = Unbound
    THEN Raise(f, "UnboundLocalError")
    ELSE IF f.curr_interval_t0 > f.curr_interval_tf
    THEN LET last == Interval(f.curr_interval_start, f.curr_interval_end,
                              f.curr_interval_t0, f.prev_time_end)
         IN  [f EXCEPT !.curr_interval_tf = f.prev_time_end,
                       !.nights = Append(f.nights, NightAdd(f.curr_night, last)),
                       !.windows = Append(f.windows, [start |-> f.start, end |-> f.end]),
                       !.curr_night = NightAdd(f.curr_night, last)]
    ELSE f

----------------------------------------------------------------------------
(* Sequences as Python lists and ctypes arrays: 0-based, negative indices  *)
(* count from the end, slices are clamped                                   *)

RECURSIVE Digits(_)
\* the decimal digits of a file number, as they stand in the file name
Digits(n) == IF n < 10 THEN <<n>> ELSE Digits(n \div 10) \o <<n % 10>>

RECURSIVE LexBefore(_, _)
\* string order of two digit strings followed by ".edf": '.' sorts before
\* every digit, so a proper prefix comes first
LexBefore(a, b) ==
    IF a = <<>> THEN b # <<>>
    ELSE IF b = <<>> THEN FALSE
    ELSE IF Head(a) # Head(b) THEN Head(a) < Head(b)
    ELSE LexBefore(Tail(a), Tail(b))

\* the order list.sort() gives two file names that differ in their number
NameBefore(x, y) == LexBefore(Digits(x), Digits(y))

RECURSIVE SortedSeq(_)
\* edfs_list.sort() for a set of file names
SortedSeq(S) ==
    IF S = {} THEN <<>>
    ELSE LET m == CHOOSE x \in S : \A y \in S \ {x} : NameBefore(x, y)
         IN  <<m>> \o SortedSeq(S \ {m})

SetOf(seq) == { seq[k] : k \in 1..Len(seq) }

\* lst[i] is defined
IndexOk(lst, i) == i >= -Len(lst) /\ i < Len(lst)

\* lst[i]
At(lst, i) == IF i < 0 THEN lst[Len(lst) + i + 1] ELSE lst[i + 1]

\* the position a slice bound stands for
SliceBound(lst, i) ==
    IF i < 0 THEN (IF Len(lst) + i < 0 THEN 0 ELSE Len(lst) + i)
    ELSE IF i > Len(lst) THEN Len(lst) ELSE i

\* lst[a:b]
Slice(lst, a, b) ==
    LET lo == SliceBound(lst, a)
        hi == SliceBound(lst, b)
    IN  IF lo >= hi THEN <<>> ELSE SubSeq(lst, lo + 1, hi)

RECURSIVE MaxOf(_)
\* max(list); the caller checks that the list is not empty
MaxOf(lst) ==
    IF Len(lst) = 1 THEN lst[1]
    ELSE LET m == MaxOf(Tail(lst)) IN IF lst[1] >= m THEN lst[1] ELSE m

----------------------------------------------------------------------------
(* The Work Distributor: lines 335-345 *)

Sentinel == -1

\* lst[i] = v
SetAt(lst, i, v) == [lst EXCEPT ![i + 1] = v]

RECURSIVE FillIntervalsDense(_, _, _, _, _)
\* the inner loop with one slot of the row per Interval instead of two
FillIntervalsDense(array, intervals, night_num, width, interval_num) ==
    IF interval_num >= Len(intervals) THEN array
    ELSE LET interval == intervals[interval_num + 1]
             base == night_num * width + interval_num
         IN  FillIntervalsDense(
                 SetAt(SetAt(array, base, interval.start), base + 1, interval.end),
                 intervals, night_num, width, interval_num + 1)

RECURSIVE FillIntervals(_, _, _, _, _)
\* lines 343-345: the inner loop, from interval_num on
FillIntervals(array, intervals, night_num, width, interval_num) ==
    IF interval_num >= Len(intervals) THEN array
    ELSE LET interval == intervals[interval_num + 1]
             base == night_num * width + interval_num * 2
         IN  FillIntervals(
                 SetAt(SetAt(array, base, interval.start), base + 1, interval.end),
                 intervals, night_num, width, interval_num + 1)

RECURSIVE FillNights(_, _, _, _)
\* lines 342-345: the outer loop, from night_num on
FillNights(array, nights, width, night_num) ==
    IF night_num >= Len(nights) THEN array
    ELSE FillNights(
             FillIntervals(array, nights[night_num + 1], night_num, width, 0),
             nights, width, night_num + 1)

\* cnights after line 340 and the two loops that fill it, as a 0-based list
Pack(nights, width) ==
    FillNights([k \in 1..(Len(nights) * width) |-> Sentinel], nights, width, 0)

----------------------------------------------------------------------------
(* process_night *)

\* the character of a decimal digit
DigitChar(d) == <<"0", "1", "2", "3", "4", "5", "6", "7", "8", "9">>[d + 1]

\* a number formatted by an f-string, as a sequence of characters
NumberText(n) == [ p \in 1..Len(Digits(n)) |-> DigitChar(Digits(n)[p]) ]

\* out_name with the two numbers written one after the other
OutNameUnseparated(night_num, interval_num) ==
    <<"PATIENT_night_">> \o NumberText(night_num + 1)
        \o NumberText(interval_num + 1) \o <<"_scalp">>

\* line 249: out_name, f'{PATIENT}_night_{night_num+1}.{interval_num+1}_scalp',
\* as a sequence of characters with the fixed parts as single elements
OutName(night_num, interval_num) ==
    <<"PATIENT_night_">> \o NumberText(night_num + 1) \o <<".">>
        \o NumberText(interval_num + 1) \o <<"_scalp">>

Worker0 ==
    [ state |-> "queued",
      night_num |-> 0,
      interval_num |-> 0,
      start |-> Unbound, end |-> Unbound,
      res |-> <<>>,          \* the files folded into the running buffer
      res_bound |-> FALSE,   \* res refers to a buffer
      tmp |-> <<>>,          \* a decoded buffer not yet bound to res
      files |-> <<>>,        \* what is left of cedfs_list[start+1:end]
      raised |-> "none" ]

\* the decoded buffers this worker holds
Resident(w) == (IF w.res_bound THEN 1 ELSE 0) + Len(w.tmp)

\* an exception leaves process_night: nothing catches it, the loop over the
\* intervals ends and the buffers are dropped
Fail(w, exc) ==
    [w EXCEPT !.state = "failed", !.raised = exc,
              !.res = <<>>, !.res_bound = FALSE, !.tmp = <<>>, !.files = <<>>]

\* the worker is at a call of to_edf: line 252 with a file name to pass, or
\* line 255 with a file left
Decoding(w, array, width, lst) ==
    \/ /\ w.state = "begin"
       /\ IndexOk(lst, At(array, w.night_num * width + w.interval_num * 2))
    \/ /\ w.state = "loop"
       /\ w.files # <<>>

\* read_raw_edf raises inside to_edf
DecodeFailure(w) == Fail(w, "DecodeError")

\* lines 245-247 and the decoding of line 252
BeginInterval(w, array, width, lst) ==
    LET base == w.night_num * width + w.interval_num * 2
        start == At(array, base)
        end == At(array, base + 1)
    IN  IF ~IndexOk(lst, start)
        THEN Fail([w EXCEPT !.start = start, !.end = end], "IndexError")
        ELSE [w EXCEPT !.start = start, !.end = end,
                       !.tmp = <<At(lst, start)>>,
                       !.state = "bind"]

\* line 252, the assignment: the buffer of the previous Interval is released
BindFirst(w, lst) ==
    [w EXCEPT !.res = w.tmp, !.res_bound = TRUE, !.tmp = <<>>,
              !.files = Slice(lst, w.start + 1, w.end),
              !.state = "loop"]

\* the reduction replaced by a list decoded at once and concatenated at the end
DecodeNextKeepingAll(w) ==
    [w EXCEPT !.tmp = w.tmp \o <<Head(w.files)>>, !.files = Tail(w.files),
              !.state = IF Len(w.files) = 1 THEN "merge" ELSE "loop"]

\* line 255, the decoding of the next file
DecodeNext(w) ==
    [w EXCEPT !.tmp = <<Head(w.files)>>, !.files = Tail(w.files),
              !.state = "merge"]

\* line 255, concatenate_raws and the assignment, and line 256
Concatenate(w) ==
    [w EXCEPT !.res = w.res \o w.tmp, !.tmp = <<>>, !.state = "loop"]

\* lines 258-263, then the next turn of the loop over the intervals
FilterAndExport(w, n_intervals) ==
    [w EXCEPT !.interval_num = w.interval_num + 1,
              !.state = IF w.interval_num + 1 < n_intervals
                        THEN "begin" ELSE "done"]

\* line 263: the file out_name is written, over a file of that name if there
\* is one (overwrite=True); files are the segments it holds, in order
Export(out, out_name, files) ==
    { a \in out : a.name # out_name } \cup { [name |-> out_name, files |-> files] }

\* a worker that overwrites the slot of the Interval it has exported
InheritedAfterMarking(array, w, width) ==
    IF w.state = "loop" /\ w.files = <<>>
    THEN SetAt(array, w.night_num * width + w.interval_num * 2, Sentinel)
    ELSE array

\* cnights after a step of process_night, which only reads it
InheritedAfter(array, w, width) == array

----------------------------------------------------------------------------
(* Pool.map *)

\* the tasks of one chunk: ceil(len / (4 * processes))
ChunkSize(num_tasks, num_processes) ==
    (num_tasks + 4 * num_processes - 1) \div (4 * num_processes)

\* the chunk of task k (tasks and chunks counted from 0)
ChunkOf(k, chunksize) == k \div chunksize

\* the tasks of chunk c, as indices of workers
Members(ws, c, chunksize) ==
    { k \in DOMAIN ws : ChunkOf(k - 1, chunksize) = c }

\* a pool process has taken chunk c
ChunkStarted(ws, c, chunksize) ==
    \E k \in Members(ws, c, chunksize) : ws[k].state # "queued"

\* the pool process of chunk c has ended: a task raised, which ends the
\* chunk, or every task returned
ChunkEnded(ws, c, chunksize) ==
    \/ \E k \in Members(ws, c, chunksize) : ws[k].state = "failed"
    \/ \A k \in Members(ws, c, chunksize) : ws[k].state = "done"

Chunks(ws, chunksize) == { ChunkOf(k - 1, chunksize) : k \in DOMAIN ws }

\* the chunks pool processes are working on
Busy(ws, chunksize) ==
    { c \in Chunks(ws, chunksize) :
        ChunkStarted(ws, c, chunksize) /\ ~ChunkEnded(ws, c, chunksize) }

\* task k may start: as the first of the next chunk of the queue when a
\* process is free, or after the task before it in its chunk returned
MayStart(ws, k, num_processes) ==
    LET chunksize == ChunkSize(Len(ws), num_processes)
        c == ChunkOf(k - 1, chunksize)
    IN  /\ ws[k].state = "queued"
        /\ IF k - 1 = c * chunksize
           THEN /\ Cardinality(Busy(ws, chunksize)) < num_processes
                /\ \A b \in Chunks(ws, chunksize) :
                      b < c => ChunkStarted(ws, b, chunksize)
           ELSE ws[k - 1].state = "done"

----------------------------------------------------------------------------
(* The main program *)

\* a file of the directory that the catalog does not name
ExtraFile == FileNumber(-1)

\* what os.listdir() may hold: the files of the catalog, all but one of
\* them, or all of them and one more
Directories(rows) ==
    LET names == { rows[k].name : k \in 1..Len(rows) }
    IN  { names } \cup { names \ {x} : x \in names } \cup { names \cup {ExtraFile} }

all_files == SetOf(edfs_list)

\* the longer catalogs are run with the limit as line 44 sets it
Init ==
    /\ \/ csv_rows \in Catalogs /\ FILE_CONCAT_LIMIT \in ConcatLimits
       \/ csv_rows \in LongCatalogs /\ FILE_CONCAT_LIMIT = inf
    /\ pc = "listdir"
    /\ err = "none"
    /\ edfs_list = <<>>
    /\ pf = Frame0
    /\ cnights = <<>>
    /\ num_cintervals = 0
    /\ processes = 0
    /\ workers = <<>>
    /\ artifacts = {}

\* lines 306-313: the directory listing
ListDir ==
    /\ pc = "listdir"
    /\ \E d \in Directories(csv_rows) : edfs_list' = SortedSeq(d)
    /\ pc' = "get_first_date"
    /\ UNCHANGED <<csv_rows, FILE_CONCAT_LIMIT, err, pf>>
    /\ UNCHANGED poolVars

\* lines 179-181 and get_first_date: the first window, from column 3 of the
\* first data row; next() on a catalog without data rows raises StopIteration
GetFirstDate ==
    /\ pc = "get_first_date"
    /\ IF NumRows = 0
       THEN /\ pc' = "error"
            /\ err' = "StopIteration"
            /\ pf' = Raise(pf, "StopIteration")
       ELSE LET first == ReplaceToNightStart(str_to_time(csv_rows[1].end))
            IN  /\ pf' = [pf EXCEPT !.start = first,
                                    !.end = first + NIGHT_DURATION]
                /\ pc' = "loop"
                /\ err' = err
    /\ UNCHANGED parseVars
    /\ UNCHANGED poolVars

\* one iteration of the for loop of parse_find
ReadRow ==
    /\ pc = "loop"
    /\ pf.rows_read < NumRows
    /\ LET i == pf.rows_read
           f == LoopBody(pf, i, csv_rows[i + 1], all_files)
       IN  /\ pf' = f
           /\ IF f.raised # "none"
              THEN pc' = "error" /\ err' = f.raised
              ELSE pc' = "loop" /\ err' = err
    /\ UNCHANGED parseVars
    /\ UNCHANGED poolVars

\* the loop is exhausted: the tail case and the return
TailAndReturn ==
    /\ pc = "loop"
    /\ pf.rows_read = NumRows
    /\ LET f == TailCase(pf)
       IN  /\ pf' = f
           /\ IF f.raised # "none"
              THEN pc' = "error" /\ err' = f.raised
              ELSE pc' = "returned" /\ err' = err
    /\ UNCHANGED parseVars
    /\ UNCHANGED poolVars

\* lines 335-345: max() of an empty list raises ValueError
Distribute ==
    /\ pc = "returned"
    /\ IF Len(pf.nights) = 0
       THEN /\ pc' = "error"
            /\ err' = "ValueError"
            /\ UNCHANGED poolVars
       ELSE LET n_int == MaxOf([k \in 1..Len(pf.nights) |-> Len(pf.nights[k])])
            IN  /\ num_cintervals' = n_int
                /\ cnights' = Pack(pf.nights, n_int * 2)
                /\ workers' = [k \in 1..Len(pf.nights) |->
                                 [Worker0 EXCEPT !.night_num = k - 1]]
                /\ \E p \in 1..MaxProcesses : processes' = p
                /\ pc' = "pool"
                /\ err' = err
                /\ UNCHANGED artifacts
    /\ UNCHANGED parseVars
    /\ UNCHANGED pf

\* a pool process takes the task process_night(k - 1)
StartTask(k) ==
    /\ pc = "pool"
    /\ MayStart(workers, k, processes)
    /\ workers' = [workers EXCEPT ![k].state =
                      IF num_cintervals > 0 THEN "begin" ELSE "done"]
    /\ UNCHANGED <<pc, err, pf, cnights, num_cintervals, processes, artifacts>>
    /\ UNCHANGED parseVars

\* one step of process_night(k - 1)
WorkerStep(k) ==
    /\ pc = "pool"
    /\ LET w == workers[k]
       IN  \/ /\ w.state = "begin"
              /\ workers' = [workers EXCEPT ![k] =
                    BeginInterval(w, cnights, num_cintervals * 2, edfs_list)]
              /\ UNCHANGED artifacts
           \/ /\ w.state = "bind"
              /\ workers' = [workers EXCEPT ![k] = BindFirst(w, edfs_list)]
              /\ UNCHANGED artifacts
           \/ /\ w.state = "loop"
              /\ w.files # <<>>
              /\ workers' = [workers EXCEPT ![k] = DecodeNext(w)]
              /\ UNCHANGED artifacts
           \/ /\ w.state = "merge"
              /\ workers' = [workers EXCEPT ![k] = Concatenate(w)]
              /\ UNCHANGED artifacts
           \/ /\ w.state = "loop"
              /\ w.files = <<>>
              /\ workers' = [workers EXCEPT ![k] = FilterAndExport(w, num_cintervals)]
              /\ artifacts' = Export(artifacts,
                                     OutName(w.night_num, w.interval_num), w.res)
    /\ cnights' = InheritedAfter(cnights, workers[k], num_cintervals * 2)
    /\ UNCHANGED <<pc, err, pf, num_cintervals, processes>>
    /\ UNCHANGED parseVars

\* process_night(k - 1) is at a call of to_edf and the decoding raises
DecodeFails(k) ==
    /\ pc = "pool"
    /\ Decoding(workers[k], cnights, num_cintervals * 2, edfs_list)
    /\ workers' = [workers EXCEPT ![k] = DecodeFailure(workers[k])]
    /\ UNCHANGED <<pc, err, pf, cnights, num_cintervals, processes, artifacts>>
    /\ UNCHANGED parseVars

\* pool.map returns once every chunk has ended; it re-raises the exception
\* of a task that failed
PoolJoin ==
    /\ pc = "pool"
    /\ LET chunksize == ChunkSize(Len(workers), processes)
       IN  \A c \in Chunks(workers, chunksize) : ChunkEnded(workers, c, chunksize)
    /\ IF \E k \in DOMAIN workers : workers[k].state = "failed"
       THEN \E k \in DOMAIN workers :
               /\ workers[k].state = "failed"
               /\ pc' = "error"
               /\ err' = workers[k].raised
       ELSE pc' = "done" /\ err' = err
    /\ UNCHANGED <<pf, cnights, num_cintervals, processes, workers, artifacts>>
    /\ UNCHANGED parseVars

Next ==
    \/ ListDir
    \/ GetFirstDate
    \/ ReadRow
    \/ TailAndReturn
    \/ Distribute
    \/ \E k \in DOMAIN workers : StartTask(k)
    \/ \E k \in DOMAIN workers : WorkerStep(k)
    \/ \E k \in DOMAIN workers : DecodeFails(k)
    \/ PoolJoin

Spec == Init /\ [][Next]_vars

----------------------------------------------------------------------------
(* What the properties below speak about *)

\* parse_find has ended, by returning or by raising
ParseEnded == pc \notin {"listdir", "get_first_date", "loop"}

\* parse_find has returned its list of Nights
ParseReturned == ParseEnded /\ pf.raised = "none"

\* every file the catalog names is in the directory
AllFilesPresent == \A k \in 1..NumRows : csv_rows[k].name \in all_files

\* the first night window, as line 179-181 set it
FirstWindowStart == ReplaceToNightStart(EndOf(0))
FirstWindowEnd == FirstWindowStart + NIGHT_DURATION

\* every record starts inside the first night window
AllInFirstWindow ==
    \A i \in 0..(NumRows - 1) :
        StartOf(i) >= FirstWindowStart /\ StartOf(i) < FirstWindowEnd

\* no gap between consecutive records is above the margin
NoGapAboveMargin ==
    \A i \in 1..(NumRows - 1) : StartOf(i) - EndOf(i - 1) <= margin

\* the (night, interval) positions of the result whose index range holds record i
Holders(nights, i) ==
    { p \in { <<n, k>> : n \in 1..Len(nights), k \in 1..MaxRows + 1 } :
        /\ p[2] <= Len(nights[p[1]])
        /\ nights[p[1]][p[2]].start <= i
        /\ i < nights[p[1]][p[2]].end }

\* the intervals of every Night built so far, the one in progress included
AllBuiltNights == Append(pf.nights, pf.curr_night)

----------------------------------------------------------------------------
(* C1: when parse_find returns, every record that the pre-window test did  *)
(* not skip lies in the index range of exactly one Interval of the         *)
(* returned Nights, and no skipped record lies in any Interval.            *)
C1_Partition ==
    ParseReturned =>
        \A i \in 0..(NumRows - 1) :
            IF i \in pf.skipped
            THEN Holders(pf.nights, i) = {}
            ELSE Cardinality(Holders(pf.nights, i)) = 1

(* C2: N >= 1 records that all start inside one night window, no gap above *)
(* the margin and no cap: parse_find returns one Night holding the one     *)
(* Interval [0, N) from the first start to the last end.                   *)
C2_OneInterval ==
    ( /\ ParseEnded
      /\ NumRows >= 1
      /\ AllFilesPresent
      /\ FILE_CONCAT_LIMIT = inf
      /\ AllInFirstWindow
      /\ NoGapAboveMargin )
    => /\ ParseReturned
       /\ pf.nights = << << Interval(0, NumRows, StartOf(0), EndOf(NumRows - 1)) >> >>

\* the loop of parse_find is about to read record i, whose file exists,
\* while an interval is open (the record before it was not skipped)
ReadsWithOpenInterval ==
    /\ pc = "loop"
    /\ pf.rows_read < NumRows
    /\ csv_rows[pf.rows_read + 1].name \in all_files
    /\ ~pf.new_interval_flag
    /\ StartOf(pf.rows_read) >= pf.start - margin

\* the interval that is open, closed before record i at the previous end
ClosedBefore(i) ==
    Interval(pf.curr_interval_start, i, pf.curr_interval_t0, pf.prev_time_end)

(* C3: a record i inside the current window whose gap to the previous end  *)
(* is above the margin, or that finds the interval full, closes the open   *)
(* interval as [intervalStart, i) with tf = prevEnd; the next interval     *)
(* begins at index i with t0 = start_i and record i as its first member.   *)
C3_SplitStartsAtRecord ==
    [][ ( /\ ReadsWithOpenInterval
          /\ StartOf(pf.rows_read) < pf.end
          /\ \/ StartOf(pf.rows_read) - pf.prev_time_end > margin
             \/ CountAtLeast(pf.count, FILE_CONCAT_LIMIT) )
        => /\ pf'.curr_night = NightAdd(pf.curr_night, ClosedBefore(pf.rows_read))
           /\ pf'.curr_interval_start = pf.rows_read
           /\ pf'.curr_interval_t0 = StartOf(pf.rows_read)
           /\ pf'.count = 1 ]_vars

\* the Intervals a cap of k makes of the records 0..n-1: [0,k), [k,2k), ...
CapIntervals(n, k) ==
    [ j \in 1..((n + k - 1) \div k) |->
        LET lo == (j - 1) * k
            hi == IF j * k < n THEN j * k ELSE n
        IN  Interval(lo, hi, StartOf(lo), EndOf(hi - 1)) ]

(* C4: with a finite cap K, no gap above the margin and N records inside   *)
(* one night window, the Night's Intervals are [0,K), [K,2K), ...: each    *)
(* holds K records, only the last may hold fewer, and none is left out.    *)
C4_CapSplits ==
    ( /\ ParseEnded
      /\ NumRows >= 1
      /\ AllFilesPresent
      /\ FILE_CONCAT_LIMIT.finite
      /\ AllInFirstWindow
      /\ NoGapAboveMargin )
    => /\ ParseReturned
       /\ pf.nights = << CapIntervals(NumRows, FILE_CONCAT_LIMIT.n) >>

(* C5: a record i that starts at or after the window end closes the open   *)
(* Interval as [intervalStart, i) with tf = the previous end, appends it   *)
(* to the Night and the Night to the result, and begins a Night anchored   *)
(* to the date of start_i; record i starts the fresh Interval of the new   *)
(* Night, and the closed Interval is not appended to the new Night.        *)
C5_NightBoundary ==
    [][ ( /\ ReadsWithOpenInterval
          /\ StartOf(pf.rows_read) >= pf.end )
        => /\ pf'.nights =
                Append(pf.nights, NightAdd(pf.curr_night, ClosedBefore(pf.rows_read)))
           /\ pf'.start = ReplaceToNightStart(StartOf(pf.rows_read))
           /\ pf'.end = pf'.start + NIGHT_DURATION
           /\ pf'.curr_interval_start = pf.rows_read
           /\ pf'.curr_interval_t0 = StartOf(pf.rows_read)
           /\ pf'.curr_night = <<>> ]_vars

\* the last Interval of the last Night of a result
LastInterval(nights) ==
    LET night == nights[Len(nights)] IN night[Len(night)]

(* C6: when the input is exhausted while an interval is open with at least *)
(* one record folded into it, parse_find appends that interval with tf =   *)
(* the last record's end and an index range that includes the last record, *)
(* and appends its Night to the result.                                    *)
C6_TailFlush ==
    [][ ( /\ pc = "loop"
          /\ pf.rows_read = NumRows
          /\ ~pf.new_interval_flag
          /\ pf.count >= 1 )
        => /\ pc' = "returned"
           /\ Len(pf'.nights) = Len(pf.nights) + 1
           /\ Len(pf'.nights[Len(pf'.nights)]) = Len(pf.curr_night) + 1
           /\ LastInterval(pf'.nights).tf = EndOf(NumRows - 1)
           /\ LastInterval(pf'.nights).start <= NumRows - 1
           /\ LastInterval(pf'.nights).end > NumRows - 1 ]_vars

(* C7: in every returned Night, adjacent Intervals satisfy                 *)
(* interval[i].tf <= interval[i+1].t0.                                     *)
C7_AdjacentMonotone ==
    ParseReturned =>
        \A n \in 1..Len(pf.nights) :
            \A k \in 1..(Len(pf.nights[n]) - 1) :
                pf.nights[n][k].tf <= pf.nights[n][k + 1].t0

(* C8: every Interval appended to a Night has start <= end and t0 <= tf,   *)
(* and within one Night the Intervals are in ascending order with index    *)
(* ranges that do not overlap.                                             *)
C8_IntervalsWellFormed ==
    \A n \in 1..Len(AllBuiltNights) :
        LET night == AllBuiltNights[n]
        IN  /\ \A k \in 1..Len(night) :
                   night[k].start <= night[k].end /\ night[k].t0 <= night[k].tf
            /\ \A k \in 1..(Len(night) - 1) :
                   night[k].end <= night[k + 1].start

(* C9: a catalog with a header and no data rows gives an empty Night list  *)
(* and no error.                                                           *)
C9_EmptyCatalog ==
    (ParseEnded /\ NumRows = 0) =>
        (ParseReturned /\ pf.nights = <<>> /\ err = "none")

(* C10: while process_night reduces an Interval, the worker never holds    *)
(* more than 2 decoded buffers: the running buffer and one temporary.      *)
C10_AtMostTwoResident ==
    \A k \in DOMAIN workers : Resident(workers[k]) <= 2

\* a worker in the loop over an Interval of the catalog, holding the
\* running buffer and the buffer it has just decoded
C10_Witness ==
    \E k \in DOMAIN workers :
        /\ workers[k].state = "merge"
        /\ workers[k].start >= 0
        /\ workers[k].end - workers[k].start >= 2
        /\ workers[k].res_bound
        /\ Resident(workers[k]) = 2

\* the exports named after Night n (counted from 1)
ArtifactsOf(n) ==
    { a \in artifacts :
        \E j \in 0..(num_cintervals - 1) : a.name = OutName(n - 1, j) }

\* the artifact of Interval j of Night n (both counted from 1) is written
Written(n, j) == \E a \in artifacts : a.name = OutName(n - 1, j - 1)

\* pool.map has returned or raised
PoolEnded == workers # <<>> /\ pc \in {"done", "error"}

\* the tasks that ended with an exception
FailedTasks == { k \in DOMAIN workers : workers[k].state = "failed" }

(* C11: process_night(n) writes one artifact per Interval of Night n and   *)
(* none for a padded slot: when it has returned, the artifacts named after *)
(* Night n are as many as the Intervals of Night n.                        *)
C11_OneArtifactPerInterval ==
    \A k \in DOMAIN workers :
        workers[k].state = "done" =>
            Cardinality(ArtifactsOf(k)) = Len(pf.nights[k])

(* C12: when the only failure of the run is a decoding that raised in      *)
(* Interval k of one Night, every other Interval of that Night and every   *)
(* Interval of every other Night has its artifact once the pool has ended. *)
C12_OnlyFailedIntervalMissing ==
    ( /\ PoolEnded
      /\ Cardinality(FailedTasks) = 1
      /\ \A n \in FailedTasks : workers[n].raised = "DecodeError" )
    => \A n \in FailedTasks :
         \A m \in DOMAIN workers :
           \A j \in 1..Len(pf.nights[m]) :
              <<m, j>> # <<n, workers[n].interval_num + 1>> => Written(m, j)

(* C13: when the worker of one Night fails, the worker of every other      *)
(* Night still runs to completion and writes the artifact of each of its   *)
(* Intervals.                                                              *)
C13_OtherNightsComplete ==
    ( /\ PoolEnded
      /\ Cardinality(FailedTasks) = 1 )
    => \A m \in DOMAIN workers \ FailedTasks :
          /\ workers[m].state = "done"
          /\ \A j \in 1..Len(pf.nights[m]) : Written(m, j)

(* C14: when a record of the catalog names a file that the directory does  *)
(* not hold, parse_find never returns: the run ends by an exception raised *)
(* inside it, no pool is created, no process_night starts and no artifact  *)
(* is written.                                                             *)
C14_MissingFileAborts ==
    (pc # "listdir" /\ ~AllFilesPresent) =>
        /\ pc \in {"get_first_date", "loop", "error"}
        /\ pc = "error" => (err # "none" /\ pf.raised = err)
        /\ processes = 0
        /\ workers = <<>>
        /\ artifacts = {}

\* the assertion of line 200 has ended the run at a record after the first
C14_Witness ==
    /\ ~AllFilesPresent
    /\ pc = "error"
    /\ err = "AssertionError"
    /\ pf.rows_read >= 2
    /\ csv_rows[pf.rows_read].name \notin all_files

(* C15: in every Night parse_find returns, t0 and tf of every Interval lie *)
(* in the window [start, end) the Night was built under; only the tf of    *)
(* the last Interval of a Night may lie at or past the window end.         *)
C15_SpanInsideWindow ==
    ParseReturned =>
        \A n \in 1..Len(pf.nights) :
            \A k \in 1..Len(pf.nights[n]) :
                LET interval == pf.nights[n][k]
                    window == pf.windows[n]
                IN  /\ window.start <= interval.t0
                    /\ interval.t0 < window.end
                    /\ window.start <= interval.tf
                    /\ k < Len(pf.nights[n]) => interval.tf < window.end

(* C16: in every Interval [start, end) parse_find returns, the gap from    *)
(* each member record to the next is at most the margin, and the Interval  *)
(* holds at most FILE_CONCAT_LIMIT records.                                *)
C16_GapsAndCap ==
    ParseReturned =>
        \A n \in 1..Len(pf.nights) :
            \A k \in 1..Len(pf.nights[n]) :
                LET interval == pf.nights[n][k]
                IN  /\ \A j \in interval.start..(interval.end - 2) :
                           StartOf(j + 1) - EndOf(j) <= margin
                    /\ FILE_CONCAT_LIMIT.finite =>
                           interval.end - interval.start <= FILE_CONCAT_LIMIT.n

NamesOfRecords(start, end) ==
    [ j \in 1..(end - start) |-> csv_rows[start + j].name ]

(* C18: when the directory holds every file of the catalog, position j of  *)
(* the shared file list is the file name of catalog record j, and what a   *)
(* worker has decoded for an Interval (start, end) when it exports it is   *)
(* the files of the records start .. end - 1, in order.                    *)
C18_DecodesCatalogFiles ==
    (pc # "listdir" /\ AllFilesPresent) =>
        /\ \A j \in 0..(NumRows - 1) :
               IndexOk(edfs_list, j) /\ At(edfs_list, j) = csv_rows[j + 1].name
        /\ \A k \in DOMAIN workers :
               LET w == workers[k]
               IN  ( /\ w.state = "loop"
                     /\ w.files = <<>>
                     /\ w.interval_num < Len(pf.nights[k]) )
                   => w.res = NamesOfRecords(w.start, w.end)

\* the entry the layout puts at position pos of the array
LayoutEntry(nights, width, pos) ==
    LET n == pos \div width
        k == (pos % width) \div 2
    IN  IF k < Len(nights[n + 1])
        THEN IF pos % 2 = 0 THEN nights[n + 1][k + 1].start
                            ELSE nights[n + 1][k + 1].end
        ELSE Sentinel

(* C19: once the distributor has filled the array, its width is twice the  *)
(* largest Interval count of a Night, the entries n*width + 2k and         *)
(* n*width + 2k + 1 are start and end of Interval k of Night n, and every  *)
(* other entry is the sentinel.                                            *)
C19_ArrayLayout ==
    workers # <<>> =>
        LET width == 2 * MaxOf([n \in 1..Len(pf.nights) |-> Len(pf.nights[n])])
        IN  /\ num_cintervals * 2 = width
            /\ Len(cnights) = Len(pf.nights) * width
            /\ \A n \in 0..(Len(pf.nights) - 1) :
                   \A k \in 0..(Len(pf.nights[n + 1]) - 1) :
                      /\ At(cnights, n * width + 2 * k) = pf.nights[n + 1][k + 1].start
                      /\ At(cnights, n * width + 2 * k + 1) = pf.nights[n + 1][k + 1].end
            /\ \A pos \in 0..(Len(cnights) - 1) :
                   At(cnights, pos) = LayoutEntry(pf.nights, width, pos)

\* the array is filled for three Nights of which one has fewer Intervals
\* than another, so it holds pairs and padding
C19_Witness ==
    /\ workers # <<>>
    /\ Len(pf.nights) >= 3
    /\ \E n, m \in 1..Len(pf.nights) :
          /\ Len(pf.nights[n]) < Len(pf.nights[m])
          /\ Len(pf.nights[n]) >= 1
    /\ \E pos \in 1..Len(cnights) : cnights[pos] = Sentinel

(* C20: no step taken while the pool runs, in any interleaving of the      *)
(* process_night calls, changes the shared array of pairs or the shared    *)
(* list of file names.                                                     *)
C20_SharedStateReadOnly ==
    [][ pc = "pool" => (cnights' = cnights /\ edfs_list' = edfs_list) ]_vars

\* two process_night calls are running at once, one between its Intervals
\* with an artifact written, and the array is as the distributor left it
C20_Witness ==
    /\ pc = "pool"
    /\ cnights = Pack(pf.nights, num_cintervals * 2)
    /\ \E k, m \in DOMAIN workers :
          /\ k # m
          /\ workers[k].state = "begin"
          /\ workers[k].interval_num >= 1
          /\ Written(k, 1)
          /\ workers[m].state \in {"bind", "loop", "merge"}

(* C21: for a catalog with at least one data row whose files all exist,    *)
(* parse_find returns a Night list: it does not end by reading             *)
(* prev_time_end, curr_interval_t0 or curr_interval_tf before they are     *)
(* assigned, nor by any other exception.                                   *)
C21_NoUnboundRead ==
    (ParseEnded /\ NumRows >= 1 /\ AllFilesPresent) =>
        (ParseReturned /\ err # "UnboundLocalError")

\* the (night_num, interval_num) pairs up to MaxIndex, as process_night
\* counts them
NamedPairs == (0..MaxIndex) \X (0..MaxIndex)

\* the pairs have as many names as there are pairs
NamesDistinct ==
    Cardinality({ OutName(p[1], p[2]) : p \in NamedPairs }) = Cardinality(NamedPairs)

RECURSIVE ExportsDone(_)
\* the exports the tasks have made so far: one for each turn completed of
\* the loop over the intervals
ExportsDone(ws) ==
    IF ws = <<>> THEN 0
    ELSE ws[Len(ws)].interval_num + ExportsDone(SubSeq(ws, 1, Len(ws) - 1))

(* C22: two distinct (night index, interval index) pairs have distinct     *)
(* artifact names, and in every interleaving of the workers no export      *)
(* writes over the artifact of another: the output directory holds as many *)
(* files as exports were made.                                             *)
C22_DistinctNames ==
    /\ NamesDistinct
    /\ Cardinality(artifacts) = ExportsDone(workers)

\* two workers are running at once, one has exported two Intervals and the
\* other one
C22_Witness ==
    /\ pc = "pool"
    /\ \E k, m \in DOMAIN workers :
          /\ k # m
          /\ workers[k].state \in {"begin", "bind", "loop", "merge"}
          /\ workers[m].state \in {"begin", "bind", "loop", "merge"}
          /\ workers[k].interval_num >= 2
          /\ workers[m].interval_num >= 1
          /\ Written(k, 1) /\ Written(k, 2) /\ Written(m, 1)

====
